---- MODULE Spec2Model ----
(***************************************************************************)
(* A model of src/cockpit/transports.py: the fd-based _Transport, its      *)
(* SubprocessTransport (pipe and pty mode) and StdioTransport variants.    *)
(*                                                                         *)
(* Every method of the source is an operator from a state record to a      *)
(* state record, so that a handler which calls other methods (and calls    *)
(* back into the consumer, which may call back into the transport) is one  *)
(* atomic action, as it is on the single-threaded event loop.  The         *)
(* outcomes of system calls and the choices of the consumer are inputs.    *)
(***************************************************************************)
EXTENDS Integers, Sequences, FiniteSets, TLC

VARIABLES
    kind,           \* which constructor built the transport: "pipe", "pty", "stdio"
    _eio_is_eof,    \* _Transport._eio_is_eof
    _queue,         \* _Transport._queue: None or a deque of blocks
    _in_fd,         \* _Transport._in_fd
    _out_fd,        \* _Transport._out_fd
    _closing,       \* _Transport._closing
    _is_reading,    \* _Transport._is_reading
    _eof,           \* _Transport._eof
    _pty_fd,        \* SubprocessTransport._pty_fd: "open" or "None"
    stdin,          \* SubprocessTransport._process.stdin: "open", "closed" or "None"
    _returncode,    \* SubprocessTransport._returncode: <<>> (None) or <<code>>
    reader,         \* the loop has _read_ready registered on the read fd
    writer,         \* the loop has _write_ready registered on the write fd
    exit_watch,     \* the exit watcher still registered: "pidfd", "child_watcher", "none"
    scheduled,      \* loop.call_soon queue: the arguments of pending connection_lost calls
    written,        \* the bytes the write fd has received, in order
    next_byte,      \* the label of the next byte an accepted write() carries
    n_writes,       \* the number of write() calls accepted so far
    src_pending,    \* bytes the peer has written to the read fd, not yet read
    src_closed,     \* the peer has closed its end of the read fd
    child,          \* the child process: "running", "zombie", "reaped", "none"
    log,            \* the calls into the consumer and the component that the last
                    \* call or handler made, in order
    count,          \* how often each of these calls was made so far
    unresumed,      \* pause_writing() calls less resume_writing() calls so far
    raised,         \* the exception that escaped the last call or handler, or "none"
    spooler         \* a Spooler (_fd, _contents, its reader) and the fd it reads

transport == <<kind, _eio_is_eof, _queue, _in_fd, _out_fd, _closing, _is_reading, _eof,
          _pty_fd, stdin, _returncode, reader, writer, exit_watch, scheduled,
          written, next_byte, n_writes, src_pending, src_closed,
          child, log, count, unresumed, raised>>

vars == <<transport, spooler>>

(***************************************************************************)
(* Bounds of the model.                                                    *)
(***************************************************************************)
\* bytes the consumer passes to write() in all
MaxBytes == 2
\* write() calls the transport accepts in all (zero-length ones included)
MaxWrites == 3
\* bytes the peer has written to the read fd that wait to be read, at most
MaxSrc == 1
\* teardowns (abort() calls, direct or not) in all
MaxAborts == 2
\* bytes written to the fd a Spooler reads, in all
MaxSpooled == 3
\* stands for the 8192 bytes of one Spooler read, scaled to the size of the model
SpoolerRead == 2
\* stands for IOV_MAX (1024 in the source), scaled to the size of the model
IOV_MAX == 2

(***************************************************************************)
(* Values.                                                                 *)
(***************************************************************************)
None == [is_none |-> TRUE, deque |-> <<>>]
deque(blocks) == [is_none |-> FALSE, deque |-> blocks]

Kinds == {"pipe", "pty", "stdio"}
Subprocess(s) == s.kind \in {"pipe", "pty"}

\* wait statuses os.waitpid() can report: exit(0), exit(1), killed by SIGTERM
ExitStatuses == {0, 256, 15}

RECURSIVE Flatten(_)
Flatten(blocks) == IF blocks = <<>> THEN <<>> ELSE Head(blocks) \o Flatten(Tail(blocks))

Data(first, n) == [i \in 1..n |-> first + i - 1]

Event(ev, exc, n) == [ev |-> ev, exc |-> exc, n |-> n]
Counted == {"connection_lost", "eof_received", "process_exited",
            "_write_eof_now", "half_close", "_close"}
emit(s, e) ==
    [s EXCEPT !.log = Append(@, e),
              !.count = IF e.ev \in Counted THEN [@ EXCEPT ![e.ev] = @ + 1] ELSE @,
              !.unresumed = IF e.ev = "pause_writing" THEN @ + 1
                            ELSE IF e.ev = "resume_writing" THEN @ - 1 ELSE @]
notify(s, ev) == emit(s, Event(ev, "None", 0))
raise(s, exc) == [s EXCEPT !.raised = exc]

\* the last call or handler made the call ev
Made(ev) == \E i \in 1..Len(log) : log[i].ev = ev

(***************************************************************************)
(* The inputs of one handler: the outcome of the os.kill() it may make and *)
(* what the consumer does inside resume_writing().                         *)
(***************************************************************************)
KillOutcomes == {"ok", "ProcessLookupError", "PermissionError"}
NoReact(inp) == [inp EXCEPT !.react = -1]

(***************************************************************************)
(* _Transport: the read side.                                              *)
(***************************************************************************)
pause_reading(s) ==
    IF s._is_reading
    THEN [s EXCEPT !.reader = FALSE, !._is_reading = FALSE]
    ELSE s

_close_reader(s) == [pause_reading(s) EXCEPT !._in_fd = -1]

resume_reading(s) ==
    IF ~s._is_reading /\ s._in_fd # -1
    THEN [s EXCEPT !.reader = TRUE, !._is_reading = TRUE]
    ELSE s

(***************************************************************************)
(* SubprocessTransport.send_signal and the variants' _close and            *)
(* _write_eof_now.                                                         *)
(***************************************************************************)
\* send_signal() that does not look at the exit status
send_signal_unchecked(s, inp) ==
    IF inp.kill = "ok" THEN notify(s, "os.kill")
    ELSE IF inp.kill = "ProcessLookupError" THEN s
    ELSE raise(s, "PermissionError")

send_signal(s, inp) ==
    IF s._returncode # <<>> THEN s
    ELSE IF inp.kill = "ok" THEN notify(s, "os.kill")
    ELSE IF inp.kill = "ProcessLookupError" THEN s
    ELSE raise(s, "PermissionError")

_close(s, inp) ==
    LET s0 == notify(s, "_close") IN
    IF ~Subprocess(s0) THEN s0
    ELSE LET s1 == [s0 EXCEPT !._pty_fd = "None"]
             s2 == [s1 EXCEPT !.stdin = "None"]
             s3 == send_signal(s2, inp)
         IN  \* except PermissionError: logged and dropped
             IF s3.raised = "PermissionError" THEN raise(s3, s2.raised) ELSE s3

_write_eof_now(s) ==
    LET s0 == notify(s, "_write_eof_now") IN
    IF ~Subprocess(s0) THEN raise(s0, "RuntimeError")
    ELSE IF s0.stdin = "None" THEN raise(s0, "AssertionError")
    ELSE notify([s0 EXCEPT !.stdin = "closed", !._out_fd = -1], "half_close")

(***************************************************************************)
(* _Transport: the write side, close and abort.                            *)
(***************************************************************************)
RECURSIVE write(_, _, _, _)

\* The consumer's resume_writing(): it may call write(n) before it returns, if
\* it has not asked for end-of-output.
resume_writing(s, inp) ==
    LET s1 == notify(s, "resume_writing") IN
    IF inp.react >= 0 /\ ~s1._eof
       /\ s1.n_writes < MaxWrites /\ s1.next_byte + inp.react - 1 <= MaxBytes
    THEN write(s1, inp.react, [err |-> "none", n |-> 0], NoReact(inp))
    ELSE s1

\* _remove_write_queue() that does not tell the consumer
_remove_write_queue_silent(s, inp) ==
    IF ~s._queue.is_none
    THEN [s EXCEPT !.writer = FALSE, !._queue = None]
    ELSE s

_remove_write_queue(s, inp) ==
    IF ~s._queue.is_none
    THEN LET s1 == resume_writing(s, inp)
         IN  [s1 EXCEPT !.writer = FALSE, !._queue = None]
    ELSE s

\* _create_write_queue() that does not tell the consumer
_create_write_queue_silent(s, data) ==
    IF ~s._queue.is_none THEN raise(s, "AssertionError")
    ELSE [s EXCEPT !.writer = TRUE, !._queue = deque(<<data>>)]

\* _create_write_queue() that does not register the writer
_create_write_queue_no_writer(s, data) ==
    IF ~s._queue.is_none THEN raise(s, "AssertionError")
    ELSE notify([s EXCEPT !._queue = deque(<<data>>)], "pause_writing")

_create_write_queue(s, data) ==
    IF ~s._queue.is_none THEN raise(s, "AssertionError")
    ELSE notify([s EXCEPT !.writer = TRUE, !._queue = deque(<<data>>)], "pause_writing")

\* abort() that calls connection_lost itself
abort_inline(s, exc, inp) ==
    LET s1 == [s EXCEPT !._closing = TRUE]
        s2 == _close_reader(s1)
        s3 == _remove_write_queue(s2, inp)
        s4 == emit(s3, Event("connection_lost", exc, 0))
    IN  _close(s4, inp)

abort(s, exc, inp) ==
    LET s1 == [s EXCEPT !._closing = TRUE]
        s2 == _close_reader(s1)
        s3 == _remove_write_queue(s2, inp)
        s4 == [s3 EXCEPT !.scheduled = Append(@, exc)]
    IN  _close(s4, inp)

\* write() that does not look at _closing
write_while_closing(s, n, wr, inp) ==
    IF s._eof THEN raise(s, "AssertionError")
    ELSE LET data == Data(s.next_byte, n)
             s0 == [s EXCEPT !.next_byte = @ + n, !.n_writes = @ + 1]
         IN  IF ~s0._queue.is_none
             THEN LET q == Append(s0._queue.deque, data)
                  IN  IF Len(q) > IOV_MAX
                      THEN notify([s0 EXCEPT !._queue = deque(<<Flatten(q)>>)], "join")
                      ELSE [s0 EXCEPT !._queue = deque(q)]
             ELSE IF wr.err \notin {"none", "BlockingIOError"}
             THEN abort(s0, wr.err, inp)
             ELSE LET n_bytes == IF wr.err = "BlockingIOError" THEN 0 ELSE wr.n
                      s1 == [s0 EXCEPT !.written = @ \o SubSeq(data, 1, n_bytes)]
                  IN  IF n_bytes # Len(data)
                      THEN _create_write_queue(s1, SubSeq(data, n_bytes + 1, Len(data)))
                      ELSE s1

\* write() that never consolidates the queue
write_no_join(s, n, wr, inp) ==
    IF s._closing THEN s
    ELSE IF s._eof THEN raise(s, "AssertionError")
    ELSE LET data == Data(s.next_byte, n)
             s0 == [s EXCEPT !.next_byte = @ + n, !.n_writes = @ + 1]
         IN  IF ~s0._queue.is_none
             THEN [s0 EXCEPT !._queue = deque(Append(s0._queue.deque, data))]
             ELSE IF wr.err \notin {"none", "BlockingIOError"}
             THEN abort(s0, wr.err, inp)
             ELSE LET n_bytes == IF wr.err = "BlockingIOError" THEN 0 ELSE wr.n
                      s1 == [s0 EXCEPT !.written = @ \o SubSeq(data, 1, n_bytes)]
                  IN  IF n_bytes # Len(data)
                      THEN _create_write_queue(s1, SubSeq(data, n_bytes + 1, Len(data)))
                      ELSE s1

\* write(): n is the length of the data, wr the outcome of os.write().
write(s, n, wr, inp) ==
    IF s._closing THEN s
    ELSE IF s._eof THEN raise(s, "AssertionError")
    ELSE LET data == Data(s.next_byte, n)
             s0 == [s EXCEPT !.next_byte = @ + n, !.n_writes = @ + 1]
         IN  IF ~s0._queue.is_none
             THEN LET q == Append(s0._queue.deque, data)
                  IN  IF Len(q) > IOV_MAX
                      THEN notify([s0 EXCEPT !._queue = deque(<<Flatten(q)>>)], "join")
                      ELSE [s0 EXCEPT !._queue = deque(q)]
             ELSE IF wr.err \notin {"none", "BlockingIOError"}
             THEN abort(s0, wr.err, inp)
             ELSE LET n_bytes == IF wr.err = "BlockingIOError" THEN 0 ELSE wr.n
                      s1 == [s0 EXCEPT !.written = @ \o SubSeq(data, 1, n_bytes)]
                  IN  IF n_bytes # Len(data)
                      THEN _create_write_queue(s1, SubSeq(data, n_bytes + 1, Len(data)))
                      ELSE s1

\* The loop of _write_ready that drops what writev() wrote from the queue.
RECURSIVE trim(_, _)
trim(blocks, n_bytes) ==
    IF n_bytes = 0 THEN blocks
    ELSE LET block == Head(blocks) IN
         IF Len(block) > n_bytes
         THEN <<SubSeq(block, n_bytes + 1, Len(block))>> \o Tail(blocks)
         ELSE trim(Tail(blocks), n_bytes - Len(block))

\* _write_ready(): wr is the outcome of os.writev().
_write_ready(s, wr, inp) ==
    IF s._queue.is_none THEN raise(s, "AssertionError")
    ELSE IF wr.err \notin {"none", "BlockingIOError"}
    THEN abort(s, wr.err, inp)
    ELSE LET n_bytes == IF wr.err = "BlockingIOError" THEN 0 ELSE wr.n
             s0 == emit(s, Event("os.writev", "None", n_bytes))
             s1 == [s0 EXCEPT !.written = @ \o SubSeq(Flatten(s._queue.deque), 1, n_bytes),
                              !._queue = deque(trim(s._queue.deque, n_bytes))]
         IN  IF s1._queue.deque = <<>>
             THEN LET s2 == _remove_write_queue(s1, inp)
                      s3 == IF s2._eof THEN _write_eof_now(s2) ELSE s2
                  IN  IF s3.raised # "none" THEN s3
                      ELSE IF s3._closing THEN abort(s3, "None", inp)
                      ELSE s3
             ELSE s1

\* write_eof() without its assertion
write_eof_unchecked(s) ==
    LET s1 == [s EXCEPT !._eof = TRUE]
    IN  IF s1._queue.is_none THEN _write_eof_now(s1) ELSE s1

write_eof(s) ==
    IF s._eof THEN raise(s, "AssertionError")
    ELSE LET s1 == [s EXCEPT !._eof = TRUE]
         IN  IF s1._queue.is_none THEN _write_eof_now(s1) ELSE s1

\* close() that does not wait for the queue to drain
close_without_drain(s, inp) ==
    IF s._closing THEN s
    ELSE abort(_close_reader([s EXCEPT !._closing = TRUE]), "None", inp)

close(s, inp) ==
    IF s._closing THEN s
    ELSE LET s1 == [s EXCEPT !._closing = TRUE]
             s2 == _close_reader(s1)
         IN  IF ~s2._queue.is_none THEN s2 ELSE abort(s2, "None", inp)

\* _read_ready() for which EIO is an error like any other
_read_ready_eio_fatal(s, rd, keep_open, inp) ==
    IF rd.err = "BlockingIOError" THEN s
    ELSE IF rd.err # "none"
    THEN abort(s, rd.err, inp)
    ELSE LET n_data == rd.n IN
         IF n_data # 0
         THEN emit([s EXCEPT !.src_pending = @ - n_data],
                   Event("data_received", "None", n_data))
         ELSE LET s1 == _close_reader(s)
                  s2 == notify(s1, "eof_received")
              IN  IF ~keep_open THEN close(s2, inp) ELSE s2

\* _read_ready(): rd is the outcome of os.read(), keep_open what the consumer's
\* eof_received() returns.
_read_ready(s, rd, keep_open, inp) ==
    IF rd.err = "BlockingIOError" THEN s
    ELSE IF rd.err # "none" /\ ~(s._eio_is_eof /\ rd.err = "EIO")
    THEN abort(s, rd.err, inp)
    ELSE LET n_data == IF rd.err = "none" THEN rd.n ELSE 0 IN
         IF n_data # 0
         THEN emit([s EXCEPT !.src_pending = @ - n_data],
                   Event("data_received", "None", n_data))
         ELSE LET s1 == _close_reader(s)
                  s2 == notify(s1, "eof_received")
              IN  IF ~keep_open THEN close(s2, inp) ELSE s2

(***************************************************************************)
(* SubprocessTransport.watch_exit.                                         *)
(***************************************************************************)
\* os.waitstatus_to_exitcode(); <<>> where it raises ValueError
waitstatus_to_exitcode(status) ==
    IF status % 128 = 0 THEN <<(status \div 256) % 256>>
    ELSE IF status % 128 # 127 THEN <<-(status % 128)>>
    ELSE <<>>

\* flag_exit() that does not look at _closing
flag_exit_always(s) == notify(s, "process_exited")

flag_exit(s) ==
    IF ~s._closing THEN notify(s, "process_exited") ELSE s

\* pidfd_ready() that stores the wait status as it is
pidfd_ready_raw(s, status) ==
    IF s.child = "reaped" THEN raise(s, "ChildProcessError")
    ELSE LET s1 == [s EXCEPT !.child = "reaped", !._returncode = <<status>>]
             s2 == [s1 EXCEPT !.exit_watch = "none"]
         IN  flag_exit(s2)

\* status is what os.waitpid() returns for a child that has not been waited
\* for; for one that has, it raises
pidfd_ready(s, status) ==
    IF s.child = "reaped" THEN raise(s, "ChildProcessError")
    ELSE LET code == waitstatus_to_exitcode(status)
             s1 == [s EXCEPT !.child = "reaped",
                             !._returncode = IF code = <<>> THEN <<status>> ELSE code]
             s2 == [s1 EXCEPT !.exit_watch = "none"]
         IN  flag_exit(s2)

\* the watcher has reaped the child and passes its exit code
child_watch_fired(s, code) ==
    flag_exit([s EXCEPT !.child = "reaped", !._returncode = <<code>>, !.exit_watch = "none"])

(***************************************************************************)
(* Spooler.  The record holds the object (_fd, _contents, reader: its      *)
(* _read_ready is registered with the loop), the fd's other end (pending:  *)
(* the bytes written and not yet read, closed, next: the label of the next *)
(* byte written) and what the last call did (result: what get() returned,  *)
(* reads: its os.read() calls; base: the label of the first byte that no   *)
(* get(reset=True) has taken so far).                                      *)
(***************************************************************************)
\* __init__: os.dup(fd), add_reader
Spooler ==
    [_fd |-> 9, _contents |-> <<>>, reader |-> TRUE,
     pending |-> <<>>, closed |-> FALSE, next |-> 1,
     result |-> <<>>, reads |-> 0, base |-> 1]

Spooler_close(sp) ==
    IF sp._fd # -1 THEN [sp EXCEPT !.reader = FALSE, !._fd = -1] ELSE sp

\* rd is the outcome of os.read(self._fd, 8192)
Spooler_read_ready(sp, rd) ==
    LET sp0 == [sp EXCEPT !.reads = @ + 1] IN
    IF rd.err = "BlockingIOError" THEN sp0
    ELSE LET data == IF rd.err # "none" THEN <<>> ELSE SubSeq(sp0.pending, 1, rd.n) IN
         IF data # <<>>
         THEN [sp0 EXCEPT !._contents = Append(@, data),
                          !.pending = SubSeq(@, rd.n + 1, Len(@))]
         ELSE Spooler_close(sp0)

\* select() reports the fd readable when bytes wait or the other end is closed
Spooler_is_ready(sp) ==
    IF sp._fd = -1 THEN FALSE ELSE sp.pending # <<>> \/ sp.closed

\* what os.read() can return on a readable fd: up to 8192 of the bytes that
\* wait, b'' at end of file, or an error
SpoolerReads(sp) ==
    {[err |-> "none", n |-> k] :
        k \in 1..(IF Len(sp.pending) < SpoolerRead THEN Len(sp.pending) ELSE SpoolerRead)}
    \cup (IF sp.closed /\ sp.pending = <<>> THEN {[err |-> "none", n |-> 0]} ELSE {})
    \cup {[err |-> "EIO", n |-> 0]}

\* the states in which 'while self._is_ready(): self._read_ready()' can end
RECURSIVE Spooler_drain(_)
Spooler_drain(sp) ==
    IF ~Spooler_is_ready(sp) THEN {sp}
    ELSE UNION {Spooler_drain(Spooler_read_ready(sp, rd)) : rd \in SpoolerReads(sp)}

\* get() that returns what is buffered without reading what waits
Spooler_get_no_drain(sp, reset) ==
    {[d EXCEPT !.result = Flatten(d._contents),
               !._contents = IF reset THEN <<>> ELSE @,
               !.base = IF reset THEN d.next - Len(d.pending) ELSE @] :
        d \in {[sp EXCEPT !.reads = 0]}}

Spooler_get(sp, reset) ==
    {[d EXCEPT !.result = Flatten(d._contents),
               !._contents = IF reset THEN <<>> ELSE @,
               !.base = IF reset THEN d.next - Len(d.pending) ELSE @] :
        d \in Spooler_drain([sp EXCEPT !.reads = 0])}

(***************************************************************************)
(* The state as a record, and a step to a record.                          *)
(***************************************************************************)
Cur ==
    [kind |-> kind, _eio_is_eof |-> _eio_is_eof, _queue |-> _queue, _in_fd |-> _in_fd,
     _out_fd |-> _out_fd, _closing |-> _closing, _is_reading |-> _is_reading,
     _eof |-> _eof, _pty_fd |-> _pty_fd, stdin |-> stdin, _returncode |-> _returncode,
     reader |-> reader, writer |-> writer, exit_watch |-> exit_watch,
     scheduled |-> scheduled, written |-> written, next_byte |-> next_byte,
     n_writes |-> n_writes, src_pending |-> src_pending,
     src_closed |-> src_closed, child |-> child,
     log |-> <<>>, count |-> count, unresumed |-> unresumed, raised |-> "none"]

Becomes(s) ==
    /\ kind' = s.kind /\ _eio_is_eof' = s._eio_is_eof /\ _queue' = s._queue
    /\ _in_fd' = s._in_fd /\ _out_fd' = s._out_fd /\ _closing' = s._closing
    /\ _is_reading' = s._is_reading /\ _eof' = s._eof /\ _pty_fd' = s._pty_fd
    /\ stdin' = s.stdin /\ _returncode' = s._returncode /\ reader' = s.reader
    /\ writer' = s.writer /\ exit_watch' = s.exit_watch /\ scheduled' = s.scheduled
    /\ written' = s.written /\ next_byte' = s.next_byte /\ n_writes' = s.n_writes
    /\ src_pending' = s.src_pending
    /\ src_closed' = s.src_closed /\ child' = s.child
    /\ log' = s.log /\ count' = s.count /\ unresumed' = s.unresumed
    /\ raised' = s.raised

\* the bound on teardowns, as a guard on the step to s
Within(s) == s.count["_close"] <= MaxAborts

Step(s) == Within(s) /\ Becomes(s) /\ UNCHANGED spooler

(***************************************************************************)
(* Init: the state after __init__ (connection_made, resume_reading and,    *)
(* for a subprocess, watch_exit).                                          *)
(***************************************************************************)
InFd(k) == IF k = "stdio" THEN 0 ELSE IF k = "pipe" THEN 5 ELSE 7
OutFd(k) == IF k = "stdio" THEN 1 ELSE IF k = "pipe" THEN 6 ELSE 7

Init ==
    /\ kind \in Kinds
    /\ _eio_is_eof = (kind = "pty")
    /\ _queue = None
    /\ _in_fd = InFd(kind)
    /\ _out_fd = OutFd(kind)
    /\ _closing = FALSE
    /\ _is_reading = TRUE
    /\ _eof = FALSE
    /\ _pty_fd = IF kind = "pty" THEN "open" ELSE "None"
    /\ stdin = IF kind = "pipe" THEN "open" ELSE "None"
    /\ _returncode = <<>>
    /\ reader = TRUE
    /\ writer = FALSE
    /\ exit_watch \in IF kind = "stdio" THEN {"none"} ELSE {"pidfd", "child_watcher"}
    /\ scheduled = <<>>
    /\ written = <<>>
    /\ next_byte = 1
    /\ n_writes = 0
    /\ src_pending = 0
    /\ src_closed = FALSE
    /\ child = IF kind = "stdio" THEN "none" ELSE "running"
    /\ log = <<Event("connection_made", "None", 0)>>
    /\ count = [ev \in Counted |-> 0]
    /\ unresumed = 0
    /\ raised = "none"
    /\ spooler = Spooler

(***************************************************************************)
(* The consumer's calls.                                                   *)
(***************************************************************************)
\* The inputs that can make a difference in the current state: os.kill() is
\* called only for a subprocess whose exit status is unknown, and write() does
\* something inside resume_writing() only while the transport is not closing.
Kills == IF kind # "stdio" /\ _returncode = <<>> THEN KillOutcomes ELSE {"ok"}
Reacts ==
    IF ~_queue.is_none /\ ~_closing /\ ~_eof /\ n_writes < MaxWrites
    THEN {-1} \cup {n \in 0..MaxBytes : next_byte + n - 1 <= MaxBytes}
    ELSE {-1}
Inputs == [kill : Kills, react : {-1}]
InputsReact == [kill : Kills, react : Reacts]

WriteErrors == {"EPIPE"}
ReadErrors == {"EIO", "EBADF"}

\* what os.write() can return for n bytes: it writes a prefix, would block, or fails
WriteOutcomesOf(n) ==
    {[err |-> "none", n |-> k] : k \in 0..n}
    \cup {[err |-> e, n |-> 0] : e \in {"BlockingIOError"} \cup WriteErrors}

WriteWith(n, wr) ==
    /\ n_writes < MaxWrites
    /\ next_byte + n - 1 <= MaxBytes
    /\ \E inp \in Inputs : Step(write(Cur, n, wr, inp))

\* os.write() is called only when there is no queue and the transport is open
Write ==
    \E n \in 0..MaxBytes :
    \E wr \in (IF _queue.is_none /\ ~_closing /\ ~_eof
                THEN WriteOutcomesOf(n) ELSE {[err |-> "none", n |-> 0]}) :
        WriteWith(n, wr)

WriteEof == Step(write_eof(Cur))

Close == \E inp \in Inputs : Step(close(Cur, inp))

Abort == \E inp \in Inputs : Step(abort(Cur, "None", inp))

PauseReading == Step(pause_reading(Cur))

ResumeReading == Step(resume_reading(Cur))

SendSignalWith(inp) ==
    /\ Subprocess(Cur)
    /\ Step(send_signal(Cur, inp))

SendSignal == \E inp \in Inputs : SendSignalWith(inp)

(***************************************************************************)
(* The event loop's callbacks.                                             *)
(***************************************************************************)
\* what os.read() can return: data that is there, end of file once the peer has
\* closed and all was read (EIO on a pty), would-block, or an error
ReadOutcomes ==
    {[err |-> "none", n |-> k] : k \in 1..src_pending}
    \cup (IF src_closed /\ src_pending = 0
          THEN {[err |-> IF kind = "pty" THEN "EIO" ELSE "none", n |-> 0]} ELSE {})
    \cup {[err |-> e, n |-> 0] : e \in {"BlockingIOError"} \cup ReadErrors}

ReadReadyWith(rd, keep_open) ==
    /\ reader
    /\ rd \in ReadOutcomes
    /\ \E inp \in Inputs : Step(_read_ready(Cur, rd, keep_open, inp))

ReadReady ==
    \E rd \in ReadOutcomes :
    \E keep_open \in (IF rd.n = 0 /\ rd.err \in {"none", "EIO"} THEN BOOLEAN ELSE {TRUE}) :
        ReadReadyWith(rd, keep_open)

\* what os.writev() can return: it writes a prefix of the queued bytes, would
\* block, or fails
WriteOutcomes ==
    {[err |-> "none", n |-> k] :
        k \in 0..(IF _queue.is_none THEN 0 ELSE Len(Flatten(_queue.deque)))}
    \cup {[err |-> e, n |-> 0] : e \in {"BlockingIOError"} \cup WriteErrors}

WriteReadyWith(wr) ==
    /\ writer
    /\ wr \in WriteOutcomes
    /\ \E inp \in InputsReact : Step(_write_ready(Cur, wr, inp))

WriteReady == \E wr \in WriteOutcomes : WriteReadyWith(wr)

RunScheduled ==
    /\ scheduled # <<>>
    /\ Step(emit([Cur EXCEPT !.scheduled = Tail(@)],
                  Event("connection_lost", Head(scheduled), 0)))

\* the pidfd is readable from the child's exit on
PidfdReadyWith(status) ==
    /\ exit_watch = "pidfd"
    /\ child # "running"
    /\ Step(pidfd_ready(Cur, status))

PidfdReady == \E status \in ExitStatuses : PidfdReadyWith(status)

\* the watcher calls a handler once, and then forgets it
ChildWatchFiredWith(status) ==
    /\ exit_watch = "child_watcher"
    /\ child = "zombie"
    /\ waitstatus_to_exitcode(status) # <<>>
    /\ Step(child_watch_fired(Cur, waitstatus_to_exitcode(status)[1]))

ChildWatchFired == \E status \in ExitStatuses : ChildWatchFiredWith(status)

(***************************************************************************)
(* The world: the peer of the read fd and the child process.               *)
(***************************************************************************)
SourceWrite ==
    /\ ~src_closed
    /\ src_pending < MaxSrc
    /\ Step([Cur EXCEPT !.src_pending = @ + 1])

SourceClose ==
    /\ ~src_closed
    /\ Step([Cur EXCEPT !.src_closed = TRUE])

ChildExit ==
    /\ child = "running"
    /\ Step([Cur EXCEPT !.child = "zombie", !.src_closed = TRUE])

Next ==
    \/ Write
    \/ WriteEof
    \/ Close
    \/ Abort
    \/ PauseReading
    \/ ResumeReading
    \/ SendSignal
    \/ ReadReady
    \/ WriteReady
    \/ RunScheduled
    \/ PidfdReady
    \/ ChildWatchFired
    \/ SourceWrite
    \/ SourceClose
    \/ ChildExit

Spec == Init /\ [][Next]_vars

(***************************************************************************)
(* FairSpec: a StdioTransport, whose consumer heeds can_write_eof() and so *)
(* never calls write_eof(), on an event loop that runs what call_soon()    *)
(* scheduled and calls _write_ready again and again while it is            *)
(* registered, the write fd then taking at least one byte whenever a byte  *)
(* is queued.                                                              *)
(***************************************************************************)
WriteReadyProgress ==
    \E wr \in WriteOutcomes :
        /\ wr.err = "none"
        /\ (~_queue.is_none /\ Flatten(_queue.deque) # <<>>) => wr.n >= 1
        /\ WriteReadyWith(wr)

FairInit == Init /\ kind = "stdio"

FairNext ==
    \/ Write
    \/ Close
    \/ Abort
    \/ PauseReading
    \/ ResumeReading
    \/ ReadReady
    \/ WriteReady
    \/ RunScheduled
    \/ SourceWrite
    \/ SourceClose

FairSpec ==
    FairInit /\ [][FairNext]_vars /\ WF_vars(RunScheduled) /\ WF_vars(WriteReadyProgress)

(***************************************************************************)
(* SpoolerSpec: a Spooler, its user, the loop and the other end of its fd. *)
(***************************************************************************)
SpoolerReadReadyWith(rd) ==
    /\ spooler.reader
    /\ spooler' = Spooler_read_ready([spooler EXCEPT !.reads = 0], rd)
    /\ UNCHANGED transport

\* the loop calls _read_ready when the fd is readable (or seems so)
SpoolerReadReady ==
    \E rd \in (IF Spooler_is_ready(spooler) THEN SpoolerReads(spooler)
               ELSE {[err |-> "BlockingIOError", n |-> 0]}) :
        SpoolerReadReadyWith(rd)

SpoolerGetWith(reset) ==
    /\ spooler' \in Spooler_get(spooler, reset)
    /\ UNCHANGED transport

SpoolerGet == \E reset \in BOOLEAN : SpoolerGetWith(reset)

SpoolerClose ==
    /\ spooler' = Spooler_close([spooler EXCEPT !.reads = 0])
    /\ UNCHANGED transport

SpoolerSourceWrite ==
    /\ ~spooler.closed
    /\ spooler.next <= MaxSpooled
    /\ spooler' = [spooler EXCEPT !.pending = Append(@, spooler.next), !.next = @ + 1,
                                  !.reads = 0]
    /\ UNCHANGED transport

SpoolerSourceClose ==
    /\ ~spooler.closed
    /\ spooler' = [spooler EXCEPT !.closed = TRUE, !.reads = 0]
    /\ UNCHANGED transport

SpoolerInit == Init /\ kind = "stdio"

SpoolerNext ==
    \/ SpoolerReadReady
    \/ SpoolerGet
    \/ SpoolerClose
    \/ SpoolerSourceWrite
    \/ SpoolerSourceClose

SpoolerSpec == SpoolerInit /\ [][SpoolerNext]_vars

(***************************************************************************)
(* What the claims speak of.                                               *)
(***************************************************************************)
\* the bytes in the write queue, in order
Queued == IF _queue.is_none THEN <<>> ELSE Flatten(_queue.deque)
\* the bytes of all the write() calls the transport accepted, in order
Accepted == Data(1, next_byte - 1)
\* this step ran the teardown (abort(), directly or not)
TornDown == count'["_close"] > count["_close"]
\* the error the last teardown passed on to connection_lost
LastError == scheduled'[Len(scheduled')]
\* this step removed the queue while bytes of it were unwritten
Discarded == ~_queue.is_none /\ _queue'.is_none /\ written' # written \o Queued

(***************************************************************************)
(* C1: while the transport has not been torn down, the bytes the write fd  *)
(* has received followed by the bytes still queued are exactly the bytes   *)
(* of the accepted write() calls, in order, however write() and writev()   *)
(* fragmented them.                                                        *)
(***************************************************************************)
C1_DeliveredInOrder ==
    count["_close"] = 0 => written \o Queued = Accepted

(***************************************************************************)
(* C2: close() with a queue pending tears nothing down and leaves the      *)
(* queue as it is; a teardown that comes from close() (in close() itself,  *)
(* in the read handler after a declined end-of-input, or in the            *)
(* write-ready handler) happens in a step that leaves every queued byte    *)
(* written; and a queue is removed with bytes unwritten only by a direct   *)
(* abort(): the consumer's, or that of a failed read or write.             *)
(***************************************************************************)
C2_CloseNeverDiscards ==
    [][ /\ (~_queue.is_none /\ Close) =>
              /\ _queue' = _queue /\ written' = written
              /\ ~TornDown /\ scheduled' = scheduled
        /\ (TornDown /\ LastError = "None" /\ (Close \/ ReadReady \/ WriteReady)) =>
              /\ written' = written \o Queued
              /\ _queue'.is_none
        /\ Discarded => ((TornDown /\ LastError # "None") \/ Abort)
      ]_vars

\* the write-ready handler has written the last queued bytes of a closing
\* transport and torn it down
C2_Witness ==
    /\ _closing
    /\ Made("os.writev") /\ Made("_close")
    /\ written # <<>> /\ written = Accepted
    /\ scheduled # <<>> /\ scheduled[Len(scheduled)] = "None"

(***************************************************************************)
(* C3: a transport that is torn down is torn down once and gets exactly    *)
(* one connection_lost (scheduled or delivered), whatever close() and      *)
(* abort() calls follow, and its reader is unregistered from the moment    *)
(* the notification is scheduled.                                          *)
(***************************************************************************)
C3_ExactlyOneConnectionLost ==
    /\ count["_close"] <= 1
    /\ count["connection_lost"] + Len(scheduled) = count["_close"]
    /\ scheduled # <<>> => ~reader /\ _in_fd = -1

(***************************************************************************)
(* C4: once the read handler has seen end-of-input and eof_received() has  *)
(* returned false, connection_lost is eventually delivered; and from the   *)
(* end-of-input on the reader is never registered again and no             *)
(* data_received and no second eof_received is delivered.                  *)
(***************************************************************************)
\* the read handler has just delivered eof_received(), which returned false
Declined == Made("eof_received") /\ _closing

C4_ClosedAfterDeclinedEof ==
    /\ Declined ~> count["connection_lost"] >= 1
    /\ [][count["eof_received"] >= 1 =>
            /\ ~reader' /\ _in_fd' = -1
            /\ ~Made("data_received")'
            /\ count'["eof_received"] = count["eof_received"]]_vars

(***************************************************************************)
(* C5: a second write_eof() fails an assertion and changes nothing; the    *)
(* half-close routine (_write_eof_now) runs at most once, never with a     *)
(* queue left, in write_eof() itself when no queue is pending and          *)
(* otherwise in the write-ready handler that writes the last queued byte.  *)
(***************************************************************************)
C5_WriteEofOnce ==
    [][ /\ (_eof /\ WriteEof) =>
              /\ raised' = "AssertionError"
              /\ count' = count /\ _eof' /\ _queue' = _queue
              /\ stdin' = stdin /\ _out_fd' = _out_fd
        /\ (~_eof /\ WriteEof) =>
              /\ _eof'
              /\ count'["_write_eof_now"] = IF _queue.is_none THEN 1 ELSE 0
        /\ (_eof /\ ~_queue.is_none /\ _queue'.is_none /\ Made("os.writev")') =>
              count'["_write_eof_now"] = 1
        /\ count'["_write_eof_now"] # count["_write_eof_now"] =>
              /\ count["_write_eof_now"] = 0 /\ count'["_write_eof_now"] = 1
              /\ _queue'.is_none
              /\ \/ ~_eof /\ _queue.is_none /\ WriteEof
                 \/ /\ _eof /\ ~_queue.is_none /\ written' = written \o Queued
                    /\ WriteReady
      ]_vars

\* the write-ready handler has written the last queued bytes and made the
\* half-close that an earlier write_eof() left to it
C5_Witness ==
    /\ Made("os.writev") /\ Made("_write_eof_now") /\ Made("half_close")
    /\ _eof /\ written # <<>> /\ stdin = "closed" /\ _out_fd = -1

(***************************************************************************)
(* C6: once the exit status is known it never changes, the child is waited *)
(* for once (in the step that sets the status), and no step delivers a     *)
(* signal to the child's pid from then on; before, a send_signal() whose   *)
(* os.kill() finds no process raises nothing.                              *)
(***************************************************************************)
C6_ExitStatusStable ==
    /\ []((child = "reaped") <=> (_returncode # <<>>))
    /\ [](raised # "ChildProcessError")
    /\ [][ /\ _returncode # <<>> =>
                 /\ _returncode' = _returncode
                 /\ child' = child
                 /\ ~Made("os.kill")'
           /\ (_returncode = <<>>
               /\ SendSignalWith([kill |-> "ProcessLookupError", react |-> -1])) =>
                 /\ raised' = "none"
                 /\ ~Made("os.kill")'
         ]_vars

\* a teardown of a transport whose child's exit status is known: it has sent
\* no signal
C6_Witness ==
    /\ _returncode # <<>> /\ child = "reaped"
    /\ Made("_close") /\ ~Made("os.kill")

(***************************************************************************)
(* C7: the step that observes the child's exit delivers process_exited     *)
(* once if the transport is not closing and not at all if it is, and no    *)
(* other step delivers it: never twice, never once the transport closes.   *)
(***************************************************************************)
C7_ProcessExitedOnce ==
    [][ /\ (_returncode = <<>> /\ _returncode' # <<>>) =>
              count'["process_exited"] =
                  count["process_exited"] + (IF _closing THEN 0 ELSE 1)
        /\ count'["process_exited"] # count["process_exited"] =>
              /\ _returncode = <<>> /\ _returncode' # <<>>
              /\ ~_closing
              /\ count["process_exited"] = 0
      ]_vars

\* the exit of the child of a closing transport has been observed, and
\* process_exited was not delivered
C7_Witness ==
    /\ _closing /\ child = "reaped" /\ _returncode # <<>>
    /\ exit_watch = "none"
    /\ count["process_exited"] = 0

(***************************************************************************)
(* C8 as stated: process_exited is delivered only after every byte the     *)
(* child wrote has been delivered and eof_received has been delivered, and *)
(* the exit status reported for wait status 0 is 0.                        *)
(***************************************************************************)
Delivered(ev) == count'[ev] > count[ev]

C8_DataThenEofThenExit ==
    [][ /\ Delivered("process_exited") =>
              /\ src_pending = 0
              /\ count["eof_received"] >= 1
        /\ (PidfdReadyWith(0) \/ ChildWatchFiredWith(0)) => _returncode' = <<0>>
      ]_vars

(***************************************************************************)
(* C8 amended: data_received takes the bytes it carries from what the child *)
(* wrote and never follows eof_received; process_exited is delivered by    *)
(* the step that observes the exit, once, if the transport is not closing, *)
(* whether or not data_received and eof_received have been delivered; the  *)
(* exit status reported from then on is the exit code (0 for status 0).    *)
(***************************************************************************)
ExitCode(status) == CASE status = 0 -> 0 [] status = 256 -> 1 [] status = 15 -> -15

C8_ExitDecoupledFromStream ==
    [][ /\ \A status \in ExitStatuses :
              (PidfdReadyWith(status) \/ ChildWatchFiredWith(status)) =>
                  /\ _returncode' = <<ExitCode(status)>>
                  /\ count'["process_exited"] =
                         count["process_exited"] + (IF _closing THEN 0 ELSE 1)
        /\ Made("data_received")' =>
              /\ count["eof_received"] = 0
              /\ \E i \in 1..Len(log') :
                    /\ log'[i].ev = "data_received"
                    /\ log'[i].n >= 1
                    /\ src_pending' = src_pending - log'[i].n
        /\ Delivered("eof_received") => ~Made("data_received")'
        /\ Delivered("process_exited") => count["process_exited"] = 0
      ]_vars

\* process_exited has been delivered for a child that exited with status 0,
\* before eof_received and before the bytes the child wrote
C8_Witness ==
    /\ Made("process_exited") /\ _returncode = <<0>>
    /\ src_pending > 0 /\ count["eof_received"] = 0 /\ reader

(***************************************************************************)
(* C9: pause_writing is delivered exactly by the step that creates a write *)
(* queue (a write that was not written in full), resume_writing exactly    *)
(* once by the step that removes it, and the two alternate strictly,       *)
(* starting with pause_writing.                                            *)
(***************************************************************************)
NumEv(lg, ev) == Cardinality({i \in 1..Len(lg) : lg[i].ev = ev})

RECURSIVE Alternates(_, _)
Alternates(lg, u) ==
    IF lg = <<>> THEN TRUE
    ELSE IF Head(lg).ev = "pause_writing" THEN u = 0 /\ Alternates(Tail(lg), 1)
    ELSE IF Head(lg).ev = "resume_writing" THEN u = 1 /\ Alternates(Tail(lg), 0)
    ELSE Alternates(Tail(lg), u)

C9_BackpressurePaired ==
    /\ [](unresumed = IF _queue.is_none THEN 0 ELSE 1)
    /\ [][ /\ NumEv(log', "pause_writing") =
                  (IF _queue.is_none /\ ~_queue'.is_none THEN 1 ELSE 0)
           /\ NumEv(log', "resume_writing") =
                  (IF ~_queue.is_none /\ _queue'.is_none THEN 1 ELSE 0)
           /\ (_queue.is_none /\ ~_queue'.is_none) =>
                  /\ Queued' # <<>>
                  /\ written' \o Queued' =
                         written \o Data(next_byte, next_byte' - next_byte)
                  /\ n_writes' = n_writes + 1
           /\ Alternates(log', unresumed)
         ]_vars

\* one write of MaxBytes bytes that was queued has drained, the last byte in a
\* write-ready event of its own, and resume_writing was delivered
C9_Witness ==
    /\ n_writes = 1 /\ Len(written) = MaxBytes /\ written = Accepted
    /\ \E i \in 1..Len(log) : log[i].ev = "os.writev" /\ log[i].n = 1
    /\ Made("resume_writing") /\ _queue.is_none /\ unresumed = 0 /\ ~_closing

(***************************************************************************)
(* C10: what a failing read does.  Would-block changes nothing; EIO on a   *)
(* pty unregisters the reader and delivers eof_received, and what the      *)
(* handler itself schedules is a connection_lost without error; any other  *)
(* failure aborts with the error and delivers no eof_received.             *)
(***************************************************************************)
ReadFailures == {[err |-> e, n |-> 0] : e \in {"BlockingIOError", "EIO", "EBADF"}}

ReadFailure(rd, keep_open) ==
    IF rd.err = "BlockingIOError"
    THEN /\ UNCHANGED <<kind, _eio_is_eof, _queue, _in_fd, _out_fd, _closing,
                        _is_reading, _eof, _pty_fd, stdin, _returncode, reader,
                        writer, exit_watch, scheduled, written, next_byte,
                        n_writes, src_pending, src_closed, child, count, unresumed>>
         /\ log' = <<>> /\ raised' = "none"
    ELSE IF kind = "pty" /\ rd.err = "EIO"
    THEN /\ ~reader' /\ _in_fd' = -1
         /\ count'["eof_received"] = count["eof_received"] + 1
         /\ TornDown <=> (~keep_open /\ _queue.is_none)
         /\ scheduled' = IF TornDown THEN Append(scheduled, "None") ELSE scheduled
    ELSE /\ ~reader' /\ _in_fd' = -1 /\ _closing' /\ TornDown
         /\ scheduled' = Append(scheduled, rd.err)
         /\ count'["eof_received"] = count["eof_received"]

\* C10 as stated: after eof_received on a pty no connection_lost carries an
\* error
C10_EioIsCleanEof ==
    [][ /\ (kind = "pty" /\ count["eof_received"] >= 1
            /\ Len(scheduled') > Len(scheduled)) => LastError = "None"
        /\ \A rd \in ReadFailures : \A keep_open \in BOOLEAN :
              ReadReadyWith(rd, keep_open) => ReadFailure(rd, keep_open)
      ]_vars

\* C10 amended: the connection_lost that the EIO read itself schedules carries
\* no error; a later failure may still abort the transport with its error
C10_ReadFailures ==
    [][ \A rd \in ReadFailures : \A keep_open \in BOOLEAN :
            ReadReadyWith(rd, keep_open) => ReadFailure(rd, keep_open) ]_vars

\* a pty transport's read has failed with EIO: the reader is gone, eof_received
\* was delivered, and the close that followed scheduled connection_lost(None)
C10_Witness ==
    /\ kind = "pty" /\ Made("eof_received") /\ ~reader /\ _in_fd = -1
    /\ Made("_close") /\ scheduled = <<"None">>

(***************************************************************************)
(* C11 as stated: abort() with a pending queue removes the queue and the   *)
(* writer without a resume_writing, and no step that discards queued bytes *)
(* delivers resume_writing.                                                *)
(***************************************************************************)
C11_NoResumeOnDiscard ==
    [][ /\ (~_queue.is_none /\ Abort) =>
              /\ _queue'.is_none /\ ~writer'
              /\ ~Made("resume_writing")'
        /\ Discarded => ~Made("resume_writing")'
      ]_vars

(***************************************************************************)
(* C11 amended: abort() with a pending queue removes the queue and the     *)
(* writer, writes none of the queued bytes, and delivers resume_writing    *)
(* once, before it schedules connection_lost and tears down; every step    *)
(* that discards queued bytes delivers resume_writing once.                *)
(***************************************************************************)
Before(lg, a, b) ==
    \A i, j \in 1..Len(lg) : (lg[i].ev = a /\ lg[j].ev = b) => i < j

C11_AbortResumes ==
    [][ /\ (~_queue.is_none /\ Abort) =>
              /\ _queue'.is_none /\ ~writer'
              /\ written' = written /\ next_byte' = next_byte
              /\ NumEv(log', "resume_writing") = 1
              /\ Before(log', "resume_writing", "_close")
              /\ scheduled' = Append(scheduled, "None")
        /\ Discarded => NumEv(log', "resume_writing") = 1
      ]_vars

\* abort() has discarded a queue that held unwritten bytes, and told the
\* consumer to resume writing
C11_Witness ==
    /\ Made("resume_writing") /\ Made("_close") /\ ~Made("os.writev")
    /\ _queue.is_none /\ ~writer /\ written # Accepted
    /\ scheduled # <<>> /\ scheduled[Len(scheduled)] = "None"

(***************************************************************************)
(* C12: on a StdioTransport every write_eof() call raises to its caller,   *)
(* and no half-close is ever performed.                                    *)
(***************************************************************************)
C12_StdioWriteEofFails ==
    /\ [](kind = "stdio" => count["half_close"] = 0 /\ stdin = "None" /\ _out_fd # -1)
    /\ [][(kind = "stdio" /\ WriteEof) => raised' # "none"]_vars

(***************************************************************************)
(* C13: get() returns, in the order of arrival, the bytes read since the   *)
(* last get(reset=True): everything written to the fd since then when the  *)
(* Spooler was open and no read failed, what was buffered when it was      *)
(* closed.  get(reset=True) empties the buffer, get() keeps it.  A closed  *)
(* Spooler reads nothing more, and close() on it changes nothing.          *)
(***************************************************************************)
Buffered == Flatten(spooler._contents)

C13_SpoolerGet ==
    /\ [](Buffered = Data(spooler.base, Len(Buffered)))
    /\ [](spooler._fd # -1 =>
              /\ spooler.reader
              /\ Buffered \o spooler.pending =
                     Data(spooler.base, spooler.next - spooler.base))
    /\ [][ /\ \A reset \in BOOLEAN : SpoolerGetWith(reset) =>
                 /\ spooler'.result =
                        Data(spooler.base,
                             spooler.next - Len(spooler'.pending) - spooler.base)
                 /\ (spooler._fd # -1 /\ spooler'._fd # -1) => spooler'.pending = <<>>
                 /\ (spooler._fd # -1 /\ spooler.closed /\ spooler'.pending = <<>>) =>
                        spooler'.result = Data(spooler.base, spooler.next - spooler.base)
                 /\ spooler._fd = -1 => spooler'.result = Buffered
                 /\ Buffered' = IF reset THEN <<>> ELSE spooler'.result
                 /\ spooler'.base =
                        IF reset THEN spooler.base + Len(spooler'.result)
                        ELSE spooler.base
           /\ spooler._fd = -1 =>
                 /\ spooler'._fd = -1 /\ ~spooler'.reader
                 /\ spooler'.reads = 0
                 /\ Len(spooler'.pending) >= Len(spooler.pending)
                 /\ Buffered' \in {Buffered, <<>>}
           /\ (spooler._fd = -1 /\ SpoolerClose) =>
                 /\ spooler'._contents = spooler._contents
                 /\ spooler'.result = spooler.result
         ]_vars

\* get(reset=True) took byte 1; bytes 2 and 3 arrived; the source end closed;
\* a get() has returned exactly bytes 2 and 3 and closed the Spooler
C13_Witness ==
    /\ spooler.base = 2 /\ spooler.result = <<2, 3>>
    /\ spooler.closed /\ spooler._fd = -1 /\ spooler.reads >= 2
    /\ Buffered = <<2, 3>>

(***************************************************************************)
(* C14: a closing transport stays closing; close() on it changes nothing;  *)
(* write() on it changes nothing and raises nothing; and whatever step is  *)
(* taken, the write fd receives only a prefix of the bytes that were       *)
(* queued, the rest staying queued or being discarded with the queue.      *)
(***************************************************************************)
Fields ==
    <<kind, _eio_is_eof, _queue, _in_fd, _out_fd, _closing, _is_reading, _eof,
      _pty_fd, stdin, _returncode, reader, writer, exit_watch, scheduled,
      written, next_byte, n_writes, src_pending, src_closed, child, count, unresumed>>

C14_ClosingAbsorbing ==
    [][ _closing =>
          /\ _closing'
          /\ next_byte' = next_byte /\ n_writes' = n_writes
          /\ \E k \in 0..Len(Queued) :
                /\ written' = written \o SubSeq(Queued, 1, k)
                /\ \/ Queued' = SubSeq(Queued, k + 1, Len(Queued))
                   \/ ~_queue.is_none /\ _queue'.is_none
          /\ _queue.is_none => _queue'.is_none
          /\ (Close \/ Write) =>
                /\ UNCHANGED Fields
                /\ log' = <<>> /\ raised' = "none"
      ]_vars

\* a transport closed with two bytes queued has drained one of them in a
\* write-ready event and still holds the other
C14_Witness ==
    /\ _closing /\ ~_queue.is_none /\ Made("os.writev")
    /\ written # <<>> /\ Queued # <<>> /\ written \o Queued = Accepted
    /\ count["_close"] = 0

(***************************************************************************)
(* C15: connection_lost is delivered only by a step of the loop that runs  *)
(* what call_soon() scheduled, never by the step that tears down; every    *)
(* teardown schedules one connection_lost, with the error given to abort() *)
(* (the error of the failed write, none for close() and a plain abort()),  *)
(* and the loop delivers them in that order with that error.               *)
(***************************************************************************)
C15_ConnectionLostScheduled ==
    [][ /\ Delivered("connection_lost") =>
              /\ scheduled # <<>> /\ scheduled' = Tail(scheduled)
              /\ log' = <<Event("connection_lost", Head(scheduled), 0)>>
              /\ count'["connection_lost"] = count["connection_lost"] + 1
              /\ ~TornDown
        /\ TornDown =>
              /\ ~Made("connection_lost")'
              /\ count'["_close"] = count["_close"] + 1
              /\ Len(scheduled') = Len(scheduled) + 1
              /\ SubSeq(scheduled', 1, Len(scheduled)) = scheduled
        /\ Len(scheduled') # Len(scheduled) => (TornDown \/ Delivered("connection_lost"))
        /\ ((TornDown /\ Close) \/ Abort) => LastError = "None"
        /\ \A e \in WriteErrors :
              /\ WriteReadyWith([err |-> e, n |-> 0]) =>
                    TornDown /\ LastError = e
              /\ (_queue.is_none /\ ~_closing /\ ~_eof
                  /\ \E n \in 0..MaxBytes : WriteWith(n, [err |-> e, n |-> 0])) =>
                    TornDown /\ LastError = e
      ]_vars

\* the loop has delivered connection_lost(EPIPE) in a step of its own, after
\* the teardown that a failing write caused
C15_Witness ==
    /\ log = <<Event("connection_lost", "EPIPE", 0)>>
    /\ count["_close"] = 1 /\ count["connection_lost"] = 1
    /\ scheduled = <<>> /\ _closing

(***************************************************************************)
(* C16: a write-ready event that empties the queue unregisters the writer  *)
(* and delivers resume_writing, then makes the half-close if end-of-output *)
(* was requested, then tears down if close was requested, in this order;   *)
(* one that leaves queued bytes unwritten does neither and keeps the       *)
(* unwritten suffix queued and the writer registered.                      *)
(***************************************************************************)
C16_DrainOrder ==
    [][ Made("os.writev")' =>
          /\ _queue'.is_none =>
                /\ written' = written \o Queued
                /\ ~writer'
                /\ NumEv(log', "resume_writing") = 1
                /\ Before(log', "os.writev", "resume_writing")
                /\ Made("_write_eof_now")' <=> _eof
                /\ Before(log', "resume_writing", "_write_eof_now")
                /\ TornDown <=> _closing
                /\ Before(log', "resume_writing", "_close")
                /\ Before(log', "_write_eof_now", "_close")
          /\ written' # written \o Queued =>
                /\ ~_queue'.is_none /\ writer'
                /\ written' \o Queued' = written \o Queued
                /\ ~Made("resume_writing")'
                /\ ~Made("_write_eof_now")'
                /\ ~TornDown
      ]_vars

(***************************************************************************)
(* C17: between callbacks _write_ready is registered with the loop exactly *)
(* when there is a write queue, so that the handler always finds a queue   *)
(* (it gets to its os.writev() call) and a queue always has its writer.    *)
(***************************************************************************)
C17_WriterIffQueue ==
    /\ [](writer <=> ~_queue.is_none)
    /\ [][ WriteReady =>
              /\ ~_queue.is_none
              /\ Made("os.writev")' \/ (TornDown /\ LastError \in WriteErrors)
         ]_vars

\* the write-ready handler has written part of the queue: the rest is queued
\* and the writer is still registered
C17_Witness ==
    /\ writer /\ ~_queue.is_none /\ Queued # <<>>
    /\ Made("os.writev") /\ written # <<>>

(***************************************************************************)
(* C18: a write() that the consumer makes inside resume_writing() and that *)
(* the transport accepts is kept: after the step its bytes follow all      *)
(* earlier bytes, written to the fd or held in a queue whose writer is     *)
(* registered.                                                             *)
(***************************************************************************)
C18_WriteInResumeKept ==
    [][ (Made("resume_writing")' /\ n_writes' > n_writes) =>
          /\ written' \o Queued' =
                 written \o Queued \o Data(next_byte, next_byte' - next_byte)
          /\ Queued' # <<>> => (~_queue'.is_none /\ writer')
      ]_vars

(***************************************************************************)
(* C19: on a loop that keeps calling the write-ready handler, with an fd   *)
(* that takes at least one byte whenever one is queued, a pending queue is *)
(* eventually removed (resume_writing delivered), and a close() made while *)
(* it was pending eventually ends in connection_lost.                      *)
(***************************************************************************)
C19_QueueDrains ==
    /\ ~_queue.is_none ~> _queue.is_none
    /\ (_closing /\ ~_queue.is_none) ~> count["connection_lost"] >= 1

(***************************************************************************)
(* C20: a queue holds between 1 and IOV_MAX blocks whenever the loop can   *)
(* call the write-ready handler; a write() that finds a queue appends its  *)
(* bytes to the queued bytes, as one more block, or, if that would make    *)
(* more than IOV_MAX blocks, as a single block holding all of them.        *)
(***************************************************************************)
C20_QueueBounded ==
    /\ [](~_queue.is_none => Len(_queue.deque) \in 1..IOV_MAX)
    /\ [][ (~_queue.is_none /\ ~_queue'.is_none /\ n_writes' > n_writes) =>
              /\ Queued' = Queued \o Data(next_byte, next_byte' - next_byte)
              /\ written' = written
              /\ _queue'.deque =
                     IF Len(_queue.deque) + 1 > IOV_MAX
                     THEN <<Queued'>>
                     ELSE Append(_queue.deque, Data(next_byte, next_byte' - next_byte))
              /\ Made("join")' <=> (Len(_queue.deque) + 1 > IOV_MAX)
         ]_vars

\* a write() has found IOV_MAX blocks queued and has made one block of them
\* and its own data
C20_Witness ==
    /\ Made("join") /\ ~_queue.is_none
    /\ _queue.deque = <<Data(1, MaxBytes)>> /\ n_writes = IOV_MAX + 1
    /\ written = <<>> /\ writer

====
